---- MODULE Spec2Model ----
(***************************************************************************)
(* Ingestion endpoints of stac_fastapi/pgstac/app.py:                      *)
(*   POST /parse/file     parse_report   (lines 210-220)                    *)
(*   POST /parse/archive  parse_report   (lines 232-236)                    *)
(*   process_archive, the background task (lines 222-230)                  *)
(* The collaborators imported from stac_catalog (gather_reports, parser,   *)
(* db_util) are not part of app.py; they are modelled from their contracts *)
(* in spec.md sections 4.1-4.5.  Calls that do I/O (fetch, catalog write)  *)
(* are the points where concurrently running requests interleave.         *)
(***************************************************************************)
EXTENDS Integers, Sequences, FiniteSets, TLC

\* Number of requests the server receives in one behaviour.
MaxReqs == 2

Reqs == 1..MaxReqs

VARIABLES
    kind,             \* kind[r]: "none" | "file" | "archive" (which endpoint r hit)
    url,              \* url[r]: request_body.url
    pc,               \* pc[r]: position of the request handler
    task,             \* task[r]: position of the background task process_archive
    file_content,     \* local file_content of the running pipeline of r
    dropsonde_report, \* local dropsonde_report
    stac_item,        \* local stac_item
    listing,          \* item URLs yielded by iter_urls_from_archive_page
    resolved,         \* the listing of r was fetched and resolved
    idx,              \* position of the for loop of process_archive in listing[r]
    response,         \* what the handler returned to the client
    raised,           \* the exception that left the handler / the task of r
    catalog,          \* the catalog store: the sequence of stored records
    trace,            \* history: stage calls made on behalf of r, in order
    outcomes,         \* history: per-item results of the archive run of r
    wroteIds          \* history: identifiers r wrote to the catalog

vars == <<kind, url, pc, task, file_content, dropsonde_report, stac_item,
          listing, resolved, idx, response, raised, catalog, trace,
          outcomes, wroteIds>>

----------------------------------------------------------------------------
(* The remote world: URLs are <<host, path>>, contents are fixed.          *)

NoUrl == <<"", "">>

FileUrls ==
    { <<"x", "a.dat">>, <<"y", "a.dat">>, <<"x", "b.dat">>,
      <<"x", "bad.dat">>, <<"x", "nopos.dat">> }

ArchiveUrls ==
    { <<"x", "empty/">>, <<"x", "ok/">>, <<"x", "mixed/">>, <<"x", "page.txt">> }

\* A sample is [t: timestamp, pos: position]; position 0 is "no position".
RemoteContent(u) ==
    CASE u[2] = "a.dat"     -> << [t |-> 1, pos |-> 5], [t |-> 2, pos |-> 6] >>
      [] u[2] = "b.dat"     -> << [t |-> 3, pos |-> 7] >>
      [] u[2] = "bad.dat"   -> << [t |-> 2, pos |-> 5], [t |-> 1, pos |-> 5] >>
      [] u[2] = "nopos.dat" -> << [t |-> 4, pos |-> 0] >>
      [] OTHER              -> << >>

\* An archive page: whether it is recognisable as a listing, and its hrefs
\* in document order.
RemotePage(u) ==
    CASE u[2] = "empty/" -> [is_listing |-> TRUE,  hrefs |-> << >>]
      [] u[2] = "ok/"    -> [is_listing |-> TRUE,  hrefs |-> <<"a.dat", "b.dat">>]
      [] u[2] = "mixed/" -> [is_listing |-> TRUE,
                             hrefs |-> <<"a.dat", "bad.dat", "b.dat">>]
      [] OTHER           -> [is_listing |-> FALSE, hrefs |-> << >>]

----------------------------------------------------------------------------
(* Collaborators (stac_catalog), by their contracts.                       *)

NoReport == [name |-> "", launch |-> 0, samples |-> << >>]
NoItem == [id |-> <<"", 0>>, geometry |-> {}, extent |-> <<0, 0>>, source |-> NoUrl]

\* parser.get_filename_from_url: the last path segment.
get_filename_from_url(u) == u[2]

\* gather_reports.get_file_content: the bytes at u, or FetchError.
get_file_content(u) ==
    { [ok |-> TRUE,  error |-> "",           content |-> RemoteContent(u)],
      [ok |-> FALSE, error |-> "FetchError", content |-> << >>] }

\* gather_reports.iter_urls_from_archive_page: fetch the page, resolve every
\* href against the page's own URL, in document order.
iter_urls_from_archive_page(u) ==
    LET page == RemotePage(u) IN
    { [ok |-> FALSE, error |-> "FetchError", urls |-> << >>] }
      \cup
    { IF page.is_listing
      THEN [ok |-> TRUE, error |-> "",
            urls |-> [i \in DOMAIN page.hrefs |-> <<u[1], page.hrefs[i]>>]]
      ELSE [ok |-> FALSE, error |-> "ListingFormatError", urls |-> << >>] }

Monotone(s) == \A i \in 1..(Len(s) - 1) : s[i].t <= s[i + 1].t

\* parser.parse_temp_drop: a non-empty, time-ordered sample sequence, or
\* MalformedReportError.
parse_temp_drop(content, filename) ==
    IF content # << >> /\ Monotone(content)
    THEN [ok |-> TRUE, error |-> "",
          report |-> [name |-> filename, launch |-> content[1].t,
                      samples |-> content]]
    ELSE [ok |-> FALSE, error |-> "MalformedReportError", report |-> NoReport]

Positions(report) ==
    { report.samples[i].pos : i \in DOMAIN report.samples } \ {0}

Times(report) == { report.samples[i].t : i \in DOMAIN report.samples }

Min(S) == CHOOSE m \in S : \A n \in S : m <= n
Max(S) == CHOOSE m \in S : \A n \in S : n <= m

\* parser.convert_dropsonde_to_stac_item: identifier from the report's
\* identity (name and launch time), or ConversionError.
convert_dropsonde_to_stac_item(report, u) ==
    IF Positions(report) # {}
    THEN [ok |-> TRUE, error |-> "",
          item |-> [id |-> <<report.name, report.launch>>,
                    geometry |-> Positions(report),
                    extent |-> <<Min(Times(report)), Max(Times(report))>>,
                    source |-> u]]
    ELSE [ok |-> FALSE, error |-> "ConversionError", item |-> NoItem]

\* db_util.add_item_to_catlog: upsert keyed by the identifier; the stored
\* record is replaced in place when the identifier exists.
add_item_to_catlog(cat, item) ==
    IF \E i \in DOMAIN cat : cat[i].id = item.id
    THEN [i \in DOMAIN cat |-> IF cat[i].id = item.id THEN item ELSE cat[i]]
    ELSE Append(cat, item)

\* The write either completes or fails with StorageError, leaving the store
\* as it was.
WriteOutcomes == { [ok |-> TRUE, error |-> ""], [ok |-> FALSE, error |-> "StorageError"] }

----------------------------------------------------------------------------
(* Responses and bookkeeping.                                              *)

NoResponse == [status |-> "none", stac_item_id |-> <<"", 0>>, detail |-> <<"", NoUrl>>]

\* line 220
FileSuccess(id) ==
    [status |-> "ok", stac_item_id |-> id,
     detail |-> <<"STAC item added to the catalog successfully.", NoUrl>>]

\* line 236: the detail names the archive URL and nothing else
ArchiveAck(u) ==
    [status |-> "ack", stac_item_id |-> <<"", 0>>,
     detail |-> <<"Processing message archive", u>>]

\* An exception that leaves the handler: the framework answers with an error.
ErrorResponse(err) ==
    [status |-> "error", stac_item_id |-> <<"", 0>>, detail |-> <<err, NoUrl>>]

Event(k, stage) == [item |-> k, stage |-> stage]

Success(u, id) == [url |-> u, ok |-> TRUE, id |-> id, error |-> ""]
Failure(u, err) == [url |-> u, ok |-> FALSE, id |-> <<"", 0>>, error |-> err]

Init ==
    /\ kind = [r \in Reqs |-> "none"]
    /\ url = [r \in Reqs |-> NoUrl]
    /\ pc = [r \in Reqs |-> "idle"]
    /\ task = [r \in Reqs |-> "none"]
    /\ file_content = [r \in Reqs |-> << >>]
    /\ dropsonde_report = [r \in Reqs |-> NoReport]
    /\ stac_item = [r \in Reqs |-> NoItem]
    /\ listing = [r \in Reqs |-> << >>]
    /\ resolved = [r \in Reqs |-> FALSE]
    /\ idx = [r \in Reqs |-> 0]
    /\ response = [r \in Reqs |-> NoResponse]
    /\ raised = [r \in Reqs |-> ""]
    /\ catalog = << >>
    /\ trace = [r \in Reqs |-> << >>]
    /\ outcomes = [r \in Reqs |-> << >>]
    /\ wroteIds = [r \in Reqs |-> {}]

----------------------------------------------------------------------------
(* POST /parse/file: parse_report, lines 210-220.                          *)

\* No try/except in the handler: the exception of a stage leaves it.
FileRaise(r, err) ==
    /\ pc' = [pc EXCEPT ![r] = "done"]
    /\ raised' = [raised EXCEPT ![r] = err]
    /\ response' = [response EXCEPT ![r] = ErrorResponse(err)]

\* lines 211-212: the request arrives, url = request_body.url
PostFile(r, u) ==
    /\ pc[r] = "idle"
    /\ kind' = [kind EXCEPT ![r] = "file"]
    /\ url' = [url EXCEPT ![r] = u]
    /\ pc' = [pc EXCEPT ![r] = "fetch"]
    /\ UNCHANGED <<task, file_content, dropsonde_report, stac_item, listing,
                   resolved, idx, response, raised, catalog, trace, outcomes,
                   wroteIds>>

\* line 214
FileFetch(r) ==
    /\ kind[r] = "file" /\ pc[r] = "fetch"
    /\ trace' = [trace EXCEPT ![r] = Append(@, Event(1, "fetch"))]
    /\ \E res \in get_file_content(url[r]) :
          IF res.ok
          THEN /\ file_content' = [file_content EXCEPT ![r] = res.content]
               /\ pc' = [pc EXCEPT ![r] = "parse"]
               /\ UNCHANGED <<raised, response>>
          ELSE /\ FileRaise(r, res.error)
               /\ UNCHANGED file_content
    /\ UNCHANGED <<kind, url, task, dropsonde_report, stac_item, listing,
                   resolved, idx, catalog, outcomes, wroteIds>>

\* lines 213, 215
FileParse(r) ==
    /\ kind[r] = "file" /\ pc[r] = "parse"
    /\ trace' = [trace EXCEPT ![r] = Append(@, Event(1, "parse"))]
    /\ LET res == parse_temp_drop(file_content[r], get_filename_from_url(url[r])) IN
          IF res.ok
          THEN /\ dropsonde_report' = [dropsonde_report EXCEPT ![r] = res.report]
               /\ pc' = [pc EXCEPT ![r] = "convert"]
               /\ UNCHANGED <<raised, response>>
          ELSE /\ FileRaise(r, res.error)
               /\ UNCHANGED dropsonde_report
    /\ UNCHANGED <<kind, url, task, file_content, stac_item, listing,
                   resolved, idx, catalog, outcomes, wroteIds>>

\* Variant of FileConvert: the ConversionError is caught and logged, and the
\* handler goes on to the write with what it has.
FileConvert_swallow(r) ==
    /\ kind[r] = "file" /\ pc[r] = "convert"
    /\ trace' = [trace EXCEPT ![r] = Append(@, Event(1, "convert"))]
    /\ LET res == convert_dropsonde_to_stac_item(dropsonde_report[r], url[r]) IN
          /\ stac_item' = [stac_item EXCEPT ![r] = res.item]
          /\ raised' = [raised EXCEPT ![r] = res.error]
    /\ pc' = [pc EXCEPT ![r] = "write"]
    /\ UNCHANGED <<kind, url, task, file_content, dropsonde_report, listing,
                   resolved, idx, response, catalog, outcomes, wroteIds>>

\* lines 216-218
FileConvert(r) ==
    /\ kind[r] = "file" /\ pc[r] = "convert"
    /\ trace' = [trace EXCEPT ![r] = Append(@, Event(1, "convert"))]
    /\ LET res == convert_dropsonde_to_stac_item(dropsonde_report[r], url[r]) IN
          IF res.ok
          THEN /\ stac_item' = [stac_item EXCEPT ![r] = res.item]
               /\ pc' = [pc EXCEPT ![r] = "write"]
               /\ UNCHANGED <<raised, response>>
          ELSE /\ FileRaise(r, res.error)
               /\ UNCHANGED stac_item
    /\ UNCHANGED <<kind, url, task, file_content, dropsonde_report, listing,
                   resolved, idx, catalog, outcomes, wroteIds>>

\* Variant of FileWrite: a plain insert instead of the upsert.
FileWrite_insert(r) ==
    /\ kind[r] = "file" /\ pc[r] = "write"
    /\ trace' = [trace EXCEPT ![r] = Append(@, Event(1, "write"))]
    /\ \E res \in WriteOutcomes :
          IF res.ok
          THEN /\ catalog' = Append(catalog, stac_item[r])
               /\ wroteIds' = [wroteIds EXCEPT ![r] = @ \cup {stac_item[r].id}]
               /\ pc' = [pc EXCEPT ![r] = "return"]
               /\ UNCHANGED <<raised, response>>
          ELSE /\ FileRaise(r, res.error)
               /\ UNCHANGED <<catalog, wroteIds>>
    /\ UNCHANGED <<kind, url, task, file_content, dropsonde_report, stac_item,
                   listing, resolved, idx, outcomes>>

\* line 219
FileWrite(r) ==
    /\ kind[r] = "file" /\ pc[r] = "write"
    /\ trace' = [trace EXCEPT ![r] = Append(@, Event(1, "write"))]
    /\ \E res \in WriteOutcomes :
          IF res.ok
          THEN /\ catalog' = add_item_to_catlog(catalog, stac_item[r])
               /\ wroteIds' = [wroteIds EXCEPT ![r] = @ \cup {stac_item[r].id}]
               /\ pc' = [pc EXCEPT ![r] = "return"]
               /\ UNCHANGED <<raised, response>>
          ELSE /\ FileRaise(r, res.error)
               /\ UNCHANGED <<catalog, wroteIds>>
    /\ UNCHANGED <<kind, url, task, file_content, dropsonde_report, stac_item,
                   listing, resolved, idx, outcomes>>

\* Variant of FileReturn: the handler returns as soon as the item is
\* converted, the write being left for later.
FileReturn_early(r) ==
    /\ kind[r] = "file" /\ pc[r] \in {"write", "return"}
    /\ response' = [response EXCEPT ![r] = FileSuccess(stac_item[r].id)]
    /\ pc' = [pc EXCEPT ![r] = "done"]
    /\ UNCHANGED <<kind, url, task, file_content, dropsonde_report, stac_item,
                   listing, resolved, idx, raised, catalog, trace, outcomes,
                   wroteIds>>

\* line 220
FileReturn(r) ==
    /\ kind[r] = "file" /\ pc[r] = "return"
    /\ response' = [response EXCEPT ![r] = FileSuccess(stac_item[r].id)]
    /\ pc' = [pc EXCEPT ![r] = "done"]
    /\ UNCHANGED <<kind, url, task, file_content, dropsonde_report, stac_item,
                   listing, resolved, idx, raised, catalog, trace, outcomes,
                   wroteIds>>

----------------------------------------------------------------------------
(* POST /parse/archive: parse_report, lines 232-236.                       *)

\* lines 233-234: the request arrives, url = request_body.url
PostArchive(r, u) ==
    /\ pc[r] = "idle"
    /\ kind' = [kind EXCEPT ![r] = "archive"]
    /\ url' = [url EXCEPT ![r] = u]
    /\ pc' = [pc EXCEPT ![r] = "add_task"]
    /\ UNCHANGED <<task, file_content, dropsonde_report, stac_item, listing,
                   resolved, idx, response, raised, catalog, trace, outcomes,
                   wroteIds>>

\* line 235: background_tasks.add_task(process_archive, url)
ArchiveAddTask(r) ==
    /\ kind[r] = "archive" /\ pc[r] = "add_task"
    /\ task' = [task EXCEPT ![r] = "queued"]
    /\ pc' = [pc EXCEPT ![r] = "return"]
    /\ UNCHANGED <<kind, url, file_content, dropsonde_report, stac_item,
                   listing, resolved, idx, response, raised, catalog, trace,
                   outcomes, wroteIds>>

\* line 236: return {"detail": ...}
ArchiveReturn(r) ==
    /\ kind[r] = "archive" /\ pc[r] = "return"
    /\ response' = [response EXCEPT ![r] = ArchiveAck(url[r])]
    /\ pc' = [pc EXCEPT ![r] = "done"]
    /\ UNCHANGED <<kind, url, task, file_content, dropsonde_report, stac_item,
                   listing, resolved, idx, raised, catalog, trace, outcomes,
                   wroteIds>>

\* Variant of BackgroundReady: the task is started where it is added
\* (a thread or create_task), without waiting for the response.
BackgroundReady_eager(r) == task[r] = "queued"

\* A task given to BackgroundTasks.add_task runs once the response of its
\* request has been sent.
BackgroundReady(r) == task[r] = "queued" /\ response[r].status = "ack"

----------------------------------------------------------------------------
(* process_archive, lines 222-230.                                         *)

ItemUrl(r) == listing[r][idx[r]]

\* No try/except in process_archive: the exception of a stage leaves the
\* for loop and the function; the item's failure is what the run last shows.
TaskRaise(r, err) ==
    /\ task' = [task EXCEPT ![r] = "crashed"]
    /\ raised' = [raised EXCEPT ![r] = err]
    /\ outcomes' = [outcomes EXCEPT ![r] = Append(@, Failure(ItemUrl(r), err))]

\* Variant of TaskList: a listing without items is treated as an error.
TaskList_empty_raises(r) ==
    /\ kind[r] = "archive" /\ BackgroundReady(r)
    /\ trace' = [trace EXCEPT ![r] = Append(@, Event(0, "list"))]
    /\ \E res \in iter_urls_from_archive_page(url[r]) :
          IF res.ok
          THEN /\ listing' = [listing EXCEPT ![r] = res.urls]
               /\ resolved' = [resolved EXCEPT ![r] = TRUE]
               /\ idx' = [idx EXCEPT ![r] = IF res.urls = << >> THEN 0 ELSE 1]
               /\ task' = [task EXCEPT ![r] =
                              IF res.urls = << >> THEN "crashed" ELSE "fetch"]
               /\ raised' = [raised EXCEPT ![r] =
                                IF res.urls = << >> THEN "ValueError" ELSE @]
          ELSE /\ task' = [task EXCEPT ![r] = "crashed"]
               /\ raised' = [raised EXCEPT ![r] = res.error]
               /\ UNCHANGED <<listing, resolved, idx>>
    /\ UNCHANGED <<kind, url, pc, file_content, dropsonde_report, stac_item,
                   response, catalog, outcomes, wroteIds>>

\* line 223, first iteration: the listing is fetched and resolved; the loop
\* body is entered only if there is an item.
TaskList(r) ==
    /\ kind[r] = "archive" /\ BackgroundReady(r)
    /\ trace' = [trace EXCEPT ![r] = Append(@, Event(0, "list"))]
    /\ \E res \in iter_urls_from_archive_page(url[r]) :
          IF res.ok
          THEN /\ listing' = [listing EXCEPT ![r] = res.urls]
               /\ resolved' = [resolved EXCEPT ![r] = TRUE]
               /\ idx' = [idx EXCEPT ![r] = IF res.urls = << >> THEN 0 ELSE 1]
               /\ task' = [task EXCEPT ![r] =
                              IF res.urls = << >> THEN "done" ELSE "fetch"]
               /\ UNCHANGED raised
          ELSE /\ task' = [task EXCEPT ![r] = "crashed"]
               /\ raised' = [raised EXCEPT ![r] = res.error]
               /\ UNCHANGED <<listing, resolved, idx>>
    /\ UNCHANGED <<kind, url, pc, file_content, dropsonde_report, stac_item,
                   response, catalog, outcomes, wroteIds>>

\* line 225
ItemFetch(r) ==
    /\ kind[r] = "archive" /\ task[r] = "fetch"
    /\ trace' = [trace EXCEPT ![r] = Append(@, Event(idx[r], "fetch"))]
    /\ \E res \in get_file_content(ItemUrl(r)) :
          IF res.ok
          THEN /\ file_content' = [file_content EXCEPT ![r] = res.content]
               /\ task' = [task EXCEPT ![r] = "parse"]
               /\ UNCHANGED <<raised, outcomes>>
          ELSE /\ TaskRaise(r, res.error)
               /\ UNCHANGED file_content
    /\ UNCHANGED <<kind, url, pc, dropsonde_report, stac_item, listing,
                   resolved, idx, response, catalog, wroteIds>>

\* lines 224, 226
ItemParse(r) ==
    /\ kind[r] = "archive" /\ task[r] = "parse"
    /\ trace' = [trace EXCEPT ![r] = Append(@, Event(idx[r], "parse"))]
    /\ LET res == parse_temp_drop(file_content[r],
                                  get_filename_from_url(ItemUrl(r))) IN
          IF res.ok
          THEN /\ dropsonde_report' = [dropsonde_report EXCEPT ![r] = res.report]
               /\ task' = [task EXCEPT ![r] = "convert"]
               /\ UNCHANGED <<raised, outcomes>>
          ELSE /\ TaskRaise(r, res.error)
               /\ UNCHANGED dropsonde_report
    /\ UNCHANGED <<kind, url, pc, file_content, stac_item, listing,
                   resolved, idx, response, catalog, wroteIds>>

\* lines 227-229
ItemConvert(r) ==
    /\ kind[r] = "archive" /\ task[r] = "convert"
    /\ trace' = [trace EXCEPT ![r] = Append(@, Event(idx[r], "convert"))]
    /\ LET res == convert_dropsonde_to_stac_item(dropsonde_report[r], ItemUrl(r)) IN
          IF res.ok
          THEN /\ stac_item' = [stac_item EXCEPT ![r] = res.item]
               /\ task' = [task EXCEPT ![r] = "write"]
               /\ UNCHANGED <<raised, outcomes>>
          ELSE /\ TaskRaise(r, res.error)
               /\ UNCHANGED stac_item
    /\ UNCHANGED <<kind, url, pc, file_content, dropsonde_report, listing,
                   resolved, idx, response, catalog, wroteIds>>

\* Variant of ItemWrite: a plain insert instead of the upsert.
ItemWrite_insert(r) ==
    /\ kind[r] = "archive" /\ task[r] = "write"
    /\ trace' = [trace EXCEPT ![r] = Append(@, Event(idx[r], "write"))]
    /\ \E res \in WriteOutcomes :
          IF res.ok
          THEN /\ catalog' = Append(catalog, stac_item[r])
               /\ wroteIds' = [wroteIds EXCEPT ![r] = @ \cup {stac_item[r].id}]
               /\ outcomes' = [outcomes EXCEPT ![r] =
                                  Append(@, Success(ItemUrl(r), stac_item[r].id))]
               /\ idx' = [idx EXCEPT ![r] = @ + 1]
               /\ task' = [task EXCEPT ![r] =
                              IF idx[r] < Len(listing[r]) THEN "fetch" ELSE "done"]
               /\ UNCHANGED raised
          ELSE /\ TaskRaise(r, res.error)
               /\ UNCHANGED <<catalog, wroteIds, idx>>
    /\ UNCHANGED <<kind, url, pc, file_content, dropsonde_report, stac_item,
                   listing, resolved, response>>

\* line 230, then line 223 again: the next item, or the end of the listing
ItemWrite(r) ==
    /\ kind[r] = "archive" /\ task[r] = "write"
    /\ trace' = [trace EXCEPT ![r] = Append(@, Event(idx[r], "write"))]
    /\ \E res \in WriteOutcomes :
          IF res.ok
          THEN /\ catalog' = add_item_to_catlog(catalog, stac_item[r])
               /\ wroteIds' = [wroteIds EXCEPT ![r] = @ \cup {stac_item[r].id}]
               /\ outcomes' = [outcomes EXCEPT ![r] =
                                  Append(@, Success(ItemUrl(r), stac_item[r].id))]
               /\ idx' = [idx EXCEPT ![r] = @ + 1]
               /\ task' = [task EXCEPT ![r] =
                              IF idx[r] < Len(listing[r]) THEN "fetch" ELSE "done"]
               /\ UNCHANGED raised
          ELSE /\ TaskRaise(r, res.error)
               /\ UNCHANGED <<catalog, wroteIds, idx>>
    /\ UNCHANGED <<kind, url, pc, file_content, dropsonde_report, stac_item,
                   listing, resolved, response>>

----------------------------------------------------------------------------

Next ==
    \E r \in Reqs :
        \/ \E u \in FileUrls : PostFile(r, u)
        \/ FileFetch(r)
        \/ FileParse(r)
        \/ FileConvert(r)
        \/ FileWrite(r)
        \/ FileReturn(r)
        \/ \E u \in ArchiveUrls : PostArchive(r, u)
        \/ ArchiveAddTask(r)
        \/ ArchiveReturn(r)
        \/ TaskList(r)
        \/ ItemFetch(r)
        \/ ItemParse(r)
        \/ ItemConvert(r)
        \/ ItemWrite(r)

Spec == Init /\ [][Next]_vars

\* process_archive runs in a worker of the server: once queued it is scheduled
\* until it returns or raises.
TaskStep(r) ==
    TaskList(r) \/ ItemFetch(r) \/ ItemParse(r) \/ ItemConvert(r) \/ ItemWrite(r)

FairSpec == Spec /\ \A r \in Reqs : WF_vars(TaskStep(r))

----------------------------------------------------------------------------
(* Vocabulary of the properties.                                           *)

StageOrder == <<"fetch", "parse", "convert", "write">>

IsPrefix(s, t) == Len(s) <= Len(t) /\ \A i \in DOMAIN s : s[i] = t[i]

Range(s) == { s[i] : i \in DOMAIN s }

Stages(r) == [i \in DOMAIN trace[r] |-> trace[r][i].stage]

StageOf(err) ==
    CASE err = "FetchError"           -> "fetch"
      [] err = "MalformedReportError" -> "parse"
      [] err = "ConversionError"      -> "convert"
      [] err = "StorageError"         -> "write"
      [] OTHER                        -> "none"

IsFile(r) == kind[r] = "file"
IsArchive(r) == kind[r] = "archive"

\* The background task of r has returned or raised.
Ended(r) == task[r] \in {"done", "crashed"}

\* Item j of the listing of r was put through the pipeline (its fetch was issued).
Attempted(r, j) == Event(j, "fetch") \in Range(trace[r])

CatalogIds == { catalog[i].id : i \in DOMAIN catalog }

Records(id) == { i \in DOMAIN catalog : catalog[i].id = id }

\* Every request of the behaviour has been received and has run to its end.
AllFinished ==
    \A r \in Reqs : pc[r] = "done" /\ (IsArchive(r) => Ended(r))

\* The record one ingestion of u stores.
ItemOf(u) ==
    convert_dropsonde_to_stac_item(
        parse_temp_drop(RemoteContent(u), get_filename_from_url(u)).report, u).item

----------------------------------------------------------------------------
(* Properties.                                                             *)

\* C1: in an archive run, when the pipeline of item k fails, every item after
\* k is still put through the pipeline.
C1_FailureDoesNotAbort ==
    \A r \in Reqs :
        (IsArchive(r) /\ Ended(r)) =>
            \A k \in DOMAIN outcomes[r] :
                ~outcomes[r][k].ok =>
                    \A j \in (k + 1)..Len(listing[r]) : Attempted(r, j)

\* C2: single-item ingestion runs fetch, parse, convert, write in this order;
\* when a stage fails no later stage runs, the response is the failure of that
\* stage, and the call has written nothing to the catalog.
C2_FileShortCircuit ==
    /\ \A r \in Reqs :
          IsFile(r) =>
              /\ IsPrefix(Stages(r), StageOrder)
              /\ raised[r] # "" =>
                    /\ pc[r] = "done"
                    /\ response[r] = ErrorResponse(raised[r])
                    /\ StageOf(raised[r]) = Stages(r)[Len(Stages(r))]
                    /\ wroteIds[r] = {}
    /\ (\A r \in Reqs : wroteIds[r] = {}) => catalog = << >>

C2_Witness ==
    \E r \in Reqs :
        /\ IsFile(r) /\ raised[r] = "ConversionError"
        /\ Stages(r) = <<"fetch", "parse", "convert">>
        /\ catalog # << >>

C4_AckBeforeWork ==
    \A r \in Reqs :
        IsArchive(r) =>
            /\ (trace[r] # << >> \/ task[r] \notin {"none", "queued"})
                  => response[r] = ArchiveAck(url[r])
            /\ response[r] \in {NoResponse, ArchiveAck(url[r])}

C4_Witness ==
    \E r \in Reqs :
        /\ IsArchive(r) /\ response[r] = ArchiveAck(url[r])
        /\ task[r] = "write" /\ outcomes[r] # << >>

\* C5: every acknowledged archive trigger leads to a run that has ended and
\* has attempted every item URL of its listing.
C5_TriggerLeadsToCompleteRun ==
    \A r \in Reqs :
        (IsArchive(r) /\ response[r].status = "ack")
            ~> (Ended(r) /\ \A j \in DOMAIN listing[r] : Attempted(r, j))

\* C6: an archive run gives one outcome per item URL of the listing, in the
\* order of the listing, and item i is finished before item i+1 is fetched.
C6_OneOutcomePerItemInOrder ==
    \A r \in Reqs :
        (IsArchive(r) /\ Ended(r) /\ resolved[r]) =>
            /\ Len(outcomes[r]) = Len(listing[r])
            /\ \A i \in DOMAIN outcomes[r] : outcomes[r][i].url = listing[r][i]
            /\ \A m, n \in DOMAIN trace[r] :
                  m < n => trace[r][m].item <= trace[r][n].item

C8_ArchiveFailsOnlyOnListing ==
    \A r \in Reqs :
        IsArchive(r) =>
            /\ task[r] = "crashed" =>
                  /\ ~resolved[r]
                  /\ trace[r] = <<Event(0, "list")>>
                  /\ wroteIds[r] = {}
            /\ (resolved[r] /\ Ended(r)) => task[r] = "done"

\* C9: a listing without item URLs ends the archive run normally: no error,
\* no outcome, no item stage, nothing written.
C9_EmptyListingIsValid ==
    \A r \in Reqs :
        (IsArchive(r) /\ resolved[r] /\ listing[r] = << >>) =>
            /\ task[r] = "done"
            /\ raised[r] = ""
            /\ outcomes[r] = << >>
            /\ trace[r] = <<Event(0, "list")>>
            /\ wroteIds[r] = {}

C9_Witness ==
    \E r \in Reqs :
        /\ IsArchive(r) /\ resolved[r] /\ listing[r] = << >>
        /\ task[r] = "done"

\* C10: a success response of POST /parse/file names an identifier whose
\* record the call has already written: the record is in the catalog when
\* the response is produced.
C10_SuccessMeansWritten ==
    \A r \in Reqs :
        (IsFile(r) /\ response[r].status = "ok") =>
            /\ response[r].stac_item_id \in wroteIds[r]
            /\ response[r].stac_item_id \in CatalogIds

C10_Witness ==
    \E r \in Reqs : IsFile(r) /\ response[r].status = "ok"

====
